---- MODULE Spec2Model ----
(***************************************************************************)
(* Model of the Alexa recipe skill (main.go): the process start-up in      *)
(* main, which builds the Connection, and Connection.IntentDispatcher,     *)
(* which maps one request (intent name and slots) to one response or one   *)
(* error using at most one query against the "recipes" collection.         *)
(***************************************************************************)
EXTENDS Integers, Sequences, FiniteSets, TLC

\* ------------------------------------------------------------------ bounds
\* Largest number of documents in the recipes collection.
MaxDocs == 2
\* Largest number of requests the process serves in one lifetime.
MaxCalls == 2

\* ------------------------------------------------------------- the inputs
\* Intent names a request may carry: the three the switch knows, the empty
\* name, a name that differs from a known one in letter case only, and an
\* unrelated one.
IntentNames ==
    {"GetIngredientsForRecipeIntent", "GetRecipeFromIngredientsIntent",
     "AboutIntent", "", "aboutintent", "AMAZON.HelpIntent"}

SlotNames == {"recipe", "ingredientone", "ingredienttwo"}

\* Values the voice platform may put in each slot.
SlotValuesOf(name) ==
    IF name = "recipe"
    THEN {"", "A", "chocolate chip cookies", "Z"}
    ELSE {"", "egg", "flour"}

AllSlotValues == UNION {SlotValuesOf(n) : n \in SlotNames}

\* request.Body.Intent.Slots: a map, so any subset of the slot names may be
\* present.
SlotMaps ==
    UNION {{f \in [D -> AllSlotValues] : \A k \in D : f[k] \in SlotValuesOf(k)}
           : D \in SUBSET SlotNames}

NoSlots == [k \in {} |-> ""]

\* The Recipe documents the recipes collection may hold (the _id, which the
\* dispatcher never reads, is left out).  Two of them share a name.
DocA == [name |-> "A", ingredients |-> <<"egg", "flour", "sugar">>]
DocB == [name |-> "B", ingredients |-> <<"egg">>]
DocCookies ==
    [name |-> "chocolate chip cookies",
     ingredients |-> <<"flour", "egg", "sugar", "chocolate">>]
DocOtherA == [name |-> "A", ingredients |-> <<"flour">>]

Docs == {DocA, DocB, DocCookies, DocOtherA}

\* The collection in natural (stored) order.
Stores == UNION {[1..n -> Docs] : n \in 0..MaxDocs}

\* context.Context as the dispatcher sees it: canceled or not.
Contexts == [canceled : BOOLEAN]

\* context.Background(): never canceled.
Background == [canceled |-> FALSE]

\* --------------------------------------------------------------- errors
ErrNil == "nil"
ErrRecipeName == "Recipe name is not present in the request"
ErrNoDocuments == "mongo: no documents in result"
ErrCanceled == "context canceled"
ErrUpstream == "upstream failure"

\* ------------------------------------------------------------- responses
\* alexa.Response{}: the zero value returned next to every error.
EmptyResponse == [version |-> "", title |-> "", body |-> ""]

NewSimpleResponse(title, text) ==
    [version |-> "1.0", title |-> title, body |-> text]

\* The zero value of Recipe (var recipe Recipe): no name, nil ingredients.
ZeroRecipe == [name |-> "", ingredients |-> <<>>]

VARIABLES
    pc,          \* where main is
    uri,         \* whether ATLAS_URI holds a usable connection string
    reachable,   \* whether the store the URI names can be reached
    connects,    \* how many times client.Connect has succeeded
    connection,  \* the Connection main built: [database |-> handle], 0 = none
    store,       \* the recipes collection
    calls,       \* requests handed to the dispatcher so far
    inv,         \* the invocation: "idle", "running" or "returned"
    request,     \* the request of the invocation
    ctx,         \* the context of the invocation
    response,    \* the response IntentDispatcher returned
    err,         \* the error IntentDispatcher returned
    queries,     \* the queries the invocation issued, in order
    faults       \* what the store did to the invocation's Find and cursor.All

vars ==
    <<pc, uri, reachable, connects, connection, store, calls, inv, request, ctx,
      response, err, queries, faults>>

procVars == <<pc, uri, reachable, connects, connection>>
callVars == <<calls, inv, request, ctx, response, err, queries, faults>>

\* ------------------------------------------------------- pure functions
\* request.Body.Intent.Slots[name].Value: indexing a Go map with a key it
\* does not hold yields the zero Slot, whose Value is "".
SlotValue(slots, name) ==
    IF name \in DOMAIN slots THEN slots[name] ELSE ""

\* strings.Join(elems, sep).
RECURSIVE Join(_, _)
Join(elems, sep) ==
    IF elems = <<>> THEN ""
    ELSE IF Len(elems) = 1 THEN elems[1]
    ELSE elems[1] \o sep \o Join(Tail(elems), sep)

\* Faulty variant of IngredientsBody: the separator lacks its space.
IngredientsBodyNoSpace(ingredients) == Join(ingredients, ",")

\* strings.Join(recipe.Ingredients, ", ")
IngredientsBody(ingredients) == Join(ingredients, ", ")

\* recipeList := ""; for _, recipe := range recipes { recipeList += recipe.Name }
RECURSIVE RecipeList(_)
RecipeList(recipes) ==
    IF recipes = <<>> THEN ""
    ELSE recipes[1].name \o RecipeList(Tail(recipes))

Contains(seq, x) == \E i \in DOMAIN seq : seq[i] = x

\* Faulty variant of MatchesAll: $in instead of $all.
MatchesAny(ingredients, wanted) ==
    \E i \in DOMAIN wanted : Contains(ingredients, wanted[i])

\* {"ingredients": {"$all": [ingredient1, ingredient2]}}: the array holds
\* every wanted value, in any position, whatever else it holds.
MatchesAll(ingredients, wanted) ==
    \A i \in DOMAIN wanted : Contains(ingredients, wanted[i])

\* Faulty variant of QueryCtx: a fresh background context is handed over.
QueryCtxBackground(c) == Background

\* The context handed to FindOne, Find and cursor.All: the invocation's.
QueryCtx(c) == c

\* ----------------------------------------------------------- the driver
\* recipesCollection.FindOne(ctx, {"name": name}).Decode(&recipe): the first
\* document in stored order whose name equals name; an error when the
\* context is canceled, when the store fails (fault), or when no document
\* matches.  On an error recipe keeps its zero value.
FindOne(coll, c, name, fault) ==
    IF c.canceled THEN [err |-> ErrCanceled, doc |-> ZeroRecipe]
    ELSE IF fault THEN [err |-> ErrUpstream, doc |-> ZeroRecipe]
    ELSE LET m == SelectSeq(coll, LAMBDA d : d.name = name)
         IN  IF m = <<>>
             THEN [err |-> ErrNoDocuments, doc |-> ZeroRecipe]
             ELSE [err |-> ErrNil, doc |-> m[1]]

\* recipesCollection.Find(ctx, filter): a cursor over the matching documents
\* in stored order, or an error.
Find(coll, c, wanted, fault) ==
    IF c.canceled THEN [err |-> ErrCanceled, cursor |-> <<>>]
    ELSE IF fault THEN [err |-> ErrUpstream, cursor |-> <<>>]
    ELSE [err |-> ErrNil,
          cursor |-> SelectSeq(coll, LAMBDA d : MatchesAll(d.ingredients, wanted))]

\* Faulty variant of CursorAll: an empty result is reported as an error.
CursorAllEmptyIsError(c, cursor, fault) ==
    IF c.canceled THEN [err |-> ErrCanceled, recipes |-> <<>>]
    ELSE IF fault THEN [err |-> ErrUpstream, recipes |-> <<>>]
    ELSE IF cursor = <<>> THEN [err |-> ErrNoDocuments, recipes |-> <<>>]
    ELSE [err |-> ErrNil, recipes |-> cursor]

\* cursor.All(ctx, &recipes): drains the cursor of the query already issued.
CursorAll(c, cursor, fault) ==
    IF c.canceled THEN [err |-> ErrCanceled, recipes |-> <<>>]
    ELSE IF fault THEN [err |-> ErrUpstream, recipes |-> <<>>]
    ELSE [err |-> ErrNil, recipes |-> cursor]

\* ------------------------------------------------------ IntentDispatcher
\* What one call returns and the queries it issued on the way.
Outcome(resp, e, qs) == [response |-> resp, err |-> e, queries |-> qs]

\* Faulty variant of SwitchCase: the name is compared ignoring letter case.
SwitchCaseFold(name) ==
    IF name = "aboutintent" THEN "AboutIntent" ELSE name

\* Faulty variant of SwitchCase: AboutIntent runs the search case.
SwitchCaseNoAbout(name) ==
    IF name = "AboutIntent" THEN "GetRecipeFromIngredientsIntent" ELSE name

\* switch request.Body.Intent.Name: Go compares the strings exactly.
SwitchCase(name) == name

\* Faulty variant of RecipeNameMissing: the check is left out.
RecipeNameNeverMissing(recipeName) == FALSE

\* if recipeName == ""
RecipeNameMissing(recipeName) == recipeName = ""

\* Faulty variant of FindOneFailed: the error is swallowed.
FindOneNeverFailed(result) == FALSE

\* if err := ...Decode(&recipe); err != nil
FindOneFailed(result) == result.err # ErrNil

\* Faulty variant of GetIngredientsForRecipe: a failed FindOne is tried again.
GetIngredientsForRecipeRetry(coll, c, slots, fault) ==
    LET recipeName == SlotValue(slots, "recipe")
        q == [op |-> "FindOne", ctx |-> QueryCtx(c), filter |-> <<recipeName>>]
        r == FindOne(coll, q.ctx, recipeName, fault)
        r2 == FindOne(coll, q.ctx, recipeName, FALSE)
    IN  IF RecipeNameMissing(recipeName)
        THEN Outcome(EmptyResponse, ErrRecipeName, <<>>)
        ELSE IF ~FindOneFailed(r)
        THEN Outcome(NewSimpleResponse("Ingredients",
                                       IngredientsBody(r.doc.ingredients)),
                     ErrNil, <<q>>)
        ELSE IF FindOneFailed(r2)
        THEN Outcome(EmptyResponse, r2.err, <<q, q>>)
        ELSE Outcome(NewSimpleResponse("Ingredients",
                                       IngredientsBody(r2.doc.ingredients)),
                     ErrNil, <<q, q>>)

\* case "GetIngredientsForRecipeIntent"
GetIngredientsForRecipe(coll, c, slots, fault) ==
    LET recipeName == SlotValue(slots, "recipe")
        q == [op |-> "FindOne", ctx |-> QueryCtx(c), filter |-> <<recipeName>>]
        r == FindOne(coll, q.ctx, recipeName, fault)
    IN  IF RecipeNameMissing(recipeName)
        THEN Outcome(EmptyResponse, ErrRecipeName, <<>>)
        ELSE IF FindOneFailed(r)
        THEN Outcome(EmptyResponse, r.err, <<q>>)
        ELSE Outcome(NewSimpleResponse("Ingredients",
                                       IngredientsBody(r.doc.ingredients)),
                     ErrNil, <<q>>)

\* case "GetRecipeFromIngredientsIntent"
GetRecipeFromIngredients(coll, c, slots, findFault, allFault) ==
    LET ingredient1 == SlotValue(slots, "ingredientone")
        ingredient2 == SlotValue(slots, "ingredienttwo")
        q == [op |-> "Find", ctx |-> QueryCtx(c),
              filter |-> <<ingredient1, ingredient2>>]
        found == Find(coll, q.ctx, q.filter, findFault)
        all == CursorAll(QueryCtx(c), found.cursor, allFault)
    IN  IF found.err # ErrNil
        THEN Outcome(EmptyResponse, found.err, <<q>>)
        ELSE IF all.err # ErrNil
        THEN Outcome(EmptyResponse, all.err, <<q>>)
        ELSE Outcome(NewSimpleResponse("Recipes", RecipeList(all.recipes)),
                     ErrNil, <<q>>)

\* case "AboutIntent"
About ==
    Outcome(NewSimpleResponse("About", "Created by Nic Raboy in Tracy, CA"),
            ErrNil, <<>>)

\* default
Unknown ==
    Outcome(NewSimpleResponse("Unknown Request", "The intent was unrecognized"),
            ErrNil, <<>>)

\* Connection.IntentDispatcher(ctx, request) as a function of the collection
\* behind connection.database and of what the store does to its queries.
Dispatch(coll, c, req, findFault, allFault) ==
    LET name == SwitchCase(req.intent)
    IN  CASE name = "GetIngredientsForRecipeIntent" ->
               GetIngredientsForRecipe(coll, c, req.slots, findFault)
          [] name = "GetRecipeFromIngredientsIntent" ->
               GetRecipeFromIngredients(coll, c, req.slots, findFault, allFault)
          [] name = "AboutIntent" -> About
          [] OTHER -> Unknown

\* Faulty variant of ReceiverAfterCall: the call swaps in a new handle.
ReceiverReconnects(conn) == [database |-> conn.database + 1]

\* IntentDispatcher has a value receiver and never assigns to it: the
\* Connection main built is what it was.
ReceiverAfterCall(conn) == conn

\* ---------------------------------------------------------------- state
NoRequest == [intent |-> "", slots |-> NoSlots]

\* The store executed what it was asked without an error of its own.
NoFaults == [find |-> FALSE, all |-> FALSE]

Init ==
    /\ pc = "NewClient"
    /\ uri \in BOOLEAN
    /\ reachable \in BOOLEAN
    /\ connects = 0
    /\ connection = [database |-> 0]
    /\ store \in Stores
    /\ calls = 0
    /\ inv = "idle"
    /\ request = NoRequest
    /\ ctx = Background
    /\ response = EmptyResponse
    /\ err = ErrNil
    /\ queries = <<>>
    /\ faults = NoFaults

\* mongo.NewClient(options.Client().ApplyURI(os.Getenv("ATLAS_URI"))), and
\* log.Fatal on its error.
NewClient ==
    /\ pc = "NewClient"
    /\ pc' = IF uri THEN "Connect" ELSE "Fatal"
    /\ UNCHANGED <<uri, reachable, connects, connection, store>>
    /\ UNCHANGED callVars

\* What err = client.Connect(ctx) can be (TRUE for nil).  Connect starts the
\* client's background monitoring and returns without waiting for a server,
\* so nil and an error of the client itself are both possible whether or not
\* the store can be reached; main never pings the store.
ConnectOutcomes == BOOLEAN

\* client.Connect(ctx) under the ten-second timeout, and log.Fatal on its
\* error.
Connect ==
    /\ pc = "Connect"
    /\ \E ok \in ConnectOutcomes :
         IF ok
         THEN pc' = "Start" /\ connects' = connects + 1
         ELSE pc' = "Fatal" /\ connects' = connects
    /\ UNCHANGED <<uri, reachable, connection, store>>
    /\ UNCHANGED callVars

\* database := client.Database("alexa"); connection := Connection{database};
\* lambda.Start(connection.IntentDispatcher)
Start ==
    /\ pc = "Start"
    /\ connection' = [database |-> connects]
    /\ pc' = "Serving"
    /\ UNCHANGED <<uri, reachable, connects, store>>
    /\ UNCHANGED callVars

\* The lambda runtime started by lambda.Start hands the next request and its
\* context to the handler.
Invoke ==
    /\ pc = "Serving"
    /\ inv = "idle"
    /\ calls < MaxCalls
    /\ \E i \in IntentNames, s \in SlotMaps, c \in Contexts :
         /\ request' = [intent |-> i, slots |-> s]
         /\ ctx' = c
    /\ inv' = "running"
    /\ calls' = calls + 1
    /\ UNCHANGED <<response, err, queries, faults, store>>
    /\ UNCHANGED procVars

\* What a store may do to a query: fail it or not, and only fail it when it
\* cannot be reached.
StoreFaults == IF reachable THEN BOOLEAN ELSE {TRUE}

\* One whole call of connection.IntentDispatcher(ctx, request).
IntentDispatcher ==
    /\ pc = "Serving"
    /\ inv = "running"
    /\ \E findFault \in StoreFaults, allFault \in StoreFaults :
         LET out == Dispatch(store, ctx, request, findFault, allFault)
         IN  /\ response' = out.response
             /\ err' = out.err
             /\ queries' = out.queries
             /\ faults' = [find |-> findFault, all |-> allFault]
    /\ connection' = ReceiverAfterCall(connection)
    /\ inv' = "returned"
    /\ UNCHANGED <<pc, uri, reachable, connects, store, calls, request, ctx>>

\* The runtime sends the result back and waits for the next request.
Respond ==
    /\ inv = "returned"
    /\ inv' = "idle"
    /\ request' = NoRequest
    /\ ctx' = Background
    /\ response' = EmptyResponse
    /\ err' = ErrNil
    /\ queries' = <<>>
    /\ faults' = NoFaults
    /\ UNCHANGED <<calls, store>>
    /\ UNCHANGED procVars

Next == NewClient \/ Connect \/ Start \/ Invoke \/ IntentDispatcher \/ Respond

Spec == Init /\ [][Next]_vars

TypeOK ==
    /\ pc \in {"NewClient", "Connect", "Start", "Serving", "Fatal"}
    /\ inv \in {"idle", "running", "returned"}
    /\ calls \in 0..MaxCalls
    /\ uri \in BOOLEAN
    /\ reachable \in BOOLEAN
    /\ store \in Stores
    /\ ctx \in Contexts
    /\ request.intent \in IntentNames
    /\ request.slots \in SlotMaps
    /\ faults \in [find : BOOLEAN, all : BOOLEAN]
    /\ err \in {ErrNil, ErrRecipeName, ErrNoDocuments, ErrCanceled, ErrUpstream}

\* ------------------------------------------------------------ properties
KnownIntents ==
    {"GetIngredientsForRecipeIntent", "GetRecipeFromIngredientsIntent",
     "AboutIntent"}

\* IntentDispatcher has returned and the runtime has not yet taken the result.
Returned == inv = "returned"

\* C1: a call whose intent name is not exactly one of the three known names
\* (the empty name and a name in another letter case included) returns
\* "Unknown Request" / "The intent was unrecognized", no error, and has
\* issued no query, whatever the slots and the collection hold.
UnknownIntentIsSafeDefault ==
    (Returned /\ request.intent \notin KnownIntents) =>
        /\ response.title = "Unknown Request"
        /\ response.body = "The intent was unrecognized"
        /\ err = ErrNil
        /\ queries = <<>>

\* A call named "aboutintent", with slots, against a collection that holds
\* documents, has returned the default response.
UnknownIntentWitness ==
    /\ Returned
    /\ request.intent = "aboutintent"
    /\ DOMAIN request.slots = SlotNames
    /\ store # <<>>
    /\ response.title = "Unknown Request"

\* C2: GetIngredientsForRecipeIntent without a recipe slot, or with an empty
\* one, returns the recipe-name error with the zero response and has issued
\* no query.
EmptyRecipeIsInvalidInput ==
    (/\ Returned
     /\ request.intent = "GetIngredientsForRecipeIntent"
     /\ ("recipe" \notin DOMAIN request.slots \/ request.slots["recipe"] = "")) =>
        /\ err = ErrRecipeName
        /\ response = EmptyResponse
        /\ queries = <<>>

\* The recipe slot is absent, the other slots are there, the collection holds
\* documents, and the call has failed.
EmptyRecipeWitness ==
    /\ Returned
    /\ request.intent = "GetIngredientsForRecipeIntent"
    /\ "recipe" \notin DOMAIN request.slots
    /\ DOMAIN request.slots # {}
    /\ store # <<>>
    /\ err = ErrRecipeName

\* The recipe slot of the request as sent (no zero-value reading).
RecipeSlotFilled ==
    /\ "recipe" \in DOMAIN request.slots
    /\ request.slots["recipe"] # ""

\* Some document of the collection is named n.
Named(n) == \E i \in DOMAIN store : store[i].name = n

\* The first document in stored order named n.
FirstNamed(n) ==
    store[CHOOSE i \in DOMAIN store :
            /\ store[i].name = n
            /\ \A j \in 1..(i - 1) : store[j].name # n]

\* The elements of seq from left to right with ", " between neighbours.
CommaList(seq) ==
    LET acc[i \in 0..Len(seq)] ==
            IF i = 0 THEN ""
            ELSE IF i = 1 THEN seq[1]
            ELSE acc[i - 1] \o ", " \o seq[i]
    IN  acc[Len(seq)]

\* The call is a single-recipe lookup that names a recipe.
IsLookup ==
    /\ Returned
    /\ request.intent = "GetIngredientsForRecipeIntent"
    /\ RecipeSlotFilled

\* C3 as stated: a lookup of a name some document carries, under a live
\* context, succeeds with title "Ingredients" and the joined ingredients of
\* such a document.
LookupOfStoredNameSucceeds ==
    (IsLookup /\ ~ctx.canceled /\ Named(request.slots["recipe"])) =>
        /\ err = ErrNil
        /\ response.title = "Ingredients"
        /\ \E i \in DOMAIN store :
             /\ store[i].name = request.slots["recipe"]
             /\ response.body = CommaList(store[i].ingredients)

\* C3 (amended): under a live context, and when the store executes the query
\* without an error of its own, a lookup of a name some document carries
\* succeeds with title "Ingredients" and the ingredients of the first such
\* document in stored order joined with ", "; the cookie recipe reads
\* "flour, egg, sugar, chocolate".
LookupOfStoredNameSucceedsUnlessStoreFails ==
    (IsLookup /\ ~ctx.canceled /\ ~faults.find /\ Named(request.slots["recipe"])) =>
        /\ err = ErrNil
        /\ response.title = "Ingredients"
        /\ response.body = CommaList(FirstNamed(request.slots["recipe"]).ingredients)
        /\ (request.slots["recipe"] = "chocolate chip cookies" =>
                response.body = "flour, egg, sugar, chocolate")

\* The cookie recipe has been looked up in a collection that holds it behind
\* another document.
LookupWitness ==
    /\ IsLookup
    /\ ~ctx.canceled
    /\ ~faults.find
    /\ request.slots["recipe"] = "chocolate chip cookies"
    /\ Len(store) = 2
    /\ store[2].name = "chocolate chip cookies"
    /\ response.body = "flour, egg, sugar, chocolate"

\* C4 as stated: a lookup of a name no document carries returns the store's
\* no-document error and the zero response.
LookupOfUnknownNameIsNotFound ==
    (IsLookup /\ ~Named(request.slots["recipe"])) =>
        /\ err = ErrNoDocuments
        /\ response = EmptyResponse

\* C4 (amended): a lookup of a name no document carries always fails with the
\* zero response, never succeeding with an empty "Ingredients" body; the
\* failure is the store's no-document error when the context is live and the
\* store executes the query without an error of its own, and the context's
\* or the store's error otherwise.
LookupOfUnknownNameFails ==
    (IsLookup /\ ~Named(request.slots["recipe"])) =>
        /\ err # ErrNil
        /\ response = EmptyResponse
        /\ response.title # "Ingredients"
        /\ (~ctx.canceled /\ ~faults.find) => err = ErrNoDocuments
        /\ ctx.canceled => err = ErrCanceled
        /\ (~ctx.canceled /\ faults.find) => err = ErrUpstream

\* A name no document carries has been looked up in a collection that holds
\* documents, and the no-document error has come back.
LookupNotFoundWitness ==
    /\ IsLookup
    /\ store # <<>>
    /\ ~Named(request.slots["recipe"])
    /\ err = ErrNoDocuments
    /\ Len(queries) = 1

\* The call is a multi-recipe search.
IsSearch ==
    /\ Returned
    /\ request.intent = "GetRecipeFromIngredientsIntent"

\* The value the search reads for a slot of the request as sent.
Wanted(slot) ==
    IF slot \in DOMAIN request.slots THEN request.slots[slot] ELSE ""

\* Document d lists ingredient x.
Lists(d, x) == x \in {d.ingredients[i] : i \in DOMAIN d.ingredients}

\* Document d lists both ingredients the request asks for.
ListsBoth(d) ==
    Lists(d, Wanted("ingredientone")) /\ Lists(d, Wanted("ingredienttwo"))

\* The names, in stored order and with nothing between them, of the documents
\* that list both ingredients.
NamesOfDocsWithBoth ==
    LET acc[i \in 0..Len(store)] ==
            IF i = 0 THEN ""
            ELSE acc[i - 1] \o (IF ListsBoth(store[i]) THEN store[i].name ELSE "")
    IN  acc[Len(store)]

\* C5: a search that succeeds returns title "Recipes" and, as body, the names
\* of exactly the documents that list both ingredients, in result order with
\* no separator; a document listing one of the two is left out (A:[egg,
\* flour,sugar], B:[egg] asked for egg and flour gives "A").
SearchReturnsNamesOfDocsWithBoth ==
    (IsSearch /\ err = ErrNil) =>
        /\ response.title = "Recipes"
        /\ response.body = NamesOfDocsWithBoth
        /\ (/\ store = <<DocA, DocB>>
            /\ Wanted("ingredientone") = "egg"
            /\ Wanted("ingredienttwo") = "flour") => response.body = "A"

\* Egg and flour have been searched in a collection that holds A with both
\* and B with egg only.
SearchWitness ==
    /\ IsSearch
    /\ err = ErrNil
    /\ store = <<DocA, DocB>>
    /\ Wanted("ingredientone") = "egg"
    /\ Wanted("ingredienttwo") = "flour"
    /\ response.body = "A"

\* No document lists both ingredients the request asks for.
NoneListsBoth == \A i \in DOMAIN store : ~ListsBoth(store[i])

\* C6 as stated: a search that no document matches returns success with title
\* "Recipes" and an empty body, while a lookup that no document matches
\* fails.
EmptySearchSucceedsLookupFails ==
    /\ (IsSearch /\ NoneListsBoth) =>
          (err = ErrNil /\ response.title = "Recipes" /\ response.body = "")
    /\ (IsLookup /\ ~Named(request.slots["recipe"])) => err # ErrNil

\* C6 (amended): under a live context, and when the store executes the query
\* without an error of its own, a search that no document matches returns
\* success with title "Recipes" and an empty body; a search never fails with
\* the no-document error, whatever the context and the store do; and a lookup
\* that no document matches fails.
EmptySearchSucceedsUnlessQueryFails ==
    /\ (IsSearch /\ NoneListsBoth /\ ~ctx.canceled /\ ~faults.find /\ ~faults.all) =>
          (err = ErrNil /\ response.title = "Recipes" /\ response.body = "")
    /\ IsSearch => err \in {ErrNil, ErrCanceled, ErrUpstream}
    /\ (IsLookup /\ ~Named(request.slots["recipe"])) => err # ErrNil

\* A search for two ingredients that only different documents list has
\* returned "Recipes" with an empty body.
EmptySearchWitness ==
    /\ IsSearch
    /\ NoneListsBoth
    /\ store # <<>>
    /\ Wanted("ingredientone") = "egg"
    /\ Wanted("ingredienttwo") = "flour"
    /\ err = ErrNil
    /\ response.title = "Recipes"
    /\ response.body = ""

\* C7: AboutIntent returns the one fixed response (title "About", the static
\* body), no error, and has issued no query, whatever the slots, the
\* collection and the context.
AboutIsFixed ==
    (Returned /\ request.intent = "AboutIntent") =>
        /\ response = [version |-> "1.0", title |-> "About",
                       body |-> "Created by Nic Raboy in Tracy, CA"]
        /\ err = ErrNil
        /\ queries = <<>>

\* AboutIntent has been served with every slot filled, a canceled context and
\* a collection that holds documents.
AboutWitness ==
    /\ Returned
    /\ request.intent = "AboutIntent"
    /\ DOMAIN request.slots = SlotNames
    /\ request.slots["recipe"] = "A"
    /\ ctx.canceled
    /\ store # <<>>
    /\ response.title = "About"

\* C8: with a context that is canceled when the call starts, a lookup that
\* names a recipe and a search both return an error and the zero response,
\* and every query they issued carried the invocation's context.
CanceledContextFailsQueries ==
    ((IsLookup \/ IsSearch) /\ ctx.canceled) =>
        /\ err # ErrNil
        /\ response = EmptyResponse
        /\ \A i \in DOMAIN queries : queries[i].ctx = ctx

\* A search that documents match, and that the store would execute, has
\* failed under a canceled context.
CanceledContextWitness ==
    /\ IsSearch
    /\ ctx.canceled
    /\ ~NoneListsBoth
    /\ faults = NoFaults
    /\ err = ErrCanceled
    /\ Len(queries) = 1

\* C9: a call issues at most one query, whatever the intent, the slots and
\* the outcome; a failed query is returned as the failure, not retried.
AtMostOneQueryPerCall ==
    /\ Len(queries) <= 1
    /\ (Returned /\ request.intent \notin
            {"GetIngredientsForRecipeIntent", "GetRecipeFromIngredientsIntent"}) =>
          queries = <<>>
    /\ (Returned /\ faults.find /\ queries # <<>> /\ ~ctx.canceled) =>
          err = ErrUpstream

\* A lookup of a stored name has failed on the store's error after one query.
FailedQueryWitness ==
    /\ IsLookup
    /\ Named(request.slots["recipe"])
    /\ ~ctx.canceled
    /\ faults.find
    /\ err = ErrUpstream
    /\ Len(queries) = 1

StartupFailsFast ==
    (~uri \/ ~reachable) =>
        /\ pc # "Serving"
        /\ calls = 0
        /\ inv = "idle"

\* The half of C11 about the URI: without a usable URI main never gets past
\* mongo.NewClient, and whenever client.Connect returns an error nothing is
\* served.
MissingUriIsFatal ==
    /\ ~uri => (pc \in {"NewClient", "Fatal"} /\ connects = 0 /\ calls = 0)
    /\ pc = "Fatal" => (connection = [database |-> 0] /\ calls = 0)
    /\ pc \in {"Start", "Serving"} => (uri /\ connects = 1)

\* Without a usable URI the process has died in mongo.NewClient.
MissingUriWitness ==
    /\ ~uri
    /\ pc = "Fatal"
    /\ connects = 0

====
